---- MODULE Spec2Model ----
(***************************************************************************)
(* Model of the presentera slide editor's Edit Session Controller:         *)
(*   - useLiveUpdates (debounced live commits of the chart data modal),    *)
(*   - ChartOptions.handleSaveData (snapshot policy of live/explicit save),*)
(*   - PieChartDataPoints / TableRow (per-field display cache and focus).  *)
(* Time is counted in milliseconds and advances in steps of TickMs.        *)
(***************************************************************************)
EXTENDS Integers, Sequences, FiniteSets, TLC

\* ---------------------------------------------------------------- bounds
MaxVal == 1
MaxLive == 2
MaxTimers == 2
MaxPoints == 2
TickMs == 100
MaxElements == 2
MaxSlides == 3
MaxGrid == 3
MaxColors == 3

\* ------------------------------------------------------ program constants
DebounceMs == 300
\* updateTimeoutRef.current when no timer id is held (useRef(null))
NoTimer == 0
\* element.width || 400, element.height || 200 of a table
DefaultTableWidth == 400
DefaultTableHeight == 200

Null == "null"
ElementIds == {1, 2}
LabelSet == {"a", "b"}
ValueSet == 0..MaxVal

VARIABLES
    \* ChartOptions (component state and props)
    isDataModalOpen,      \* useState(false)
    selectedId,           \* selectedElement.id
    hasLiveSnapshotRef,   \* useRef(false)
    \* host document model
    chartTypeOf,          \* element id -> chartType
    doc,                  \* element id -> chart dataset held by the document
    \* chart data modal state handed to the hook
    labels,
    series,
    \* useLiveUpdates refs
    updateTimeoutRef,
    isInitialLoadRef,
    initializedRef,
    lastSavedDataRef,
    hasCleanup,           \* the last run of the live effect returned its cleanup
    timers,               \* pending setTimeout callbacks
    \* observation of one step and of one burst
    step,                 \* the operation that took the last step
    calls,                \* collaborator calls made by the last step, in order
    cancelled,            \* pending timers the last step cleared without running
    sinceChange,          \* ms since labels/series last changed (capped)
    liveCount,            \* live commits since the burst began
    snapCount,            \* pushSnapshot calls since the burst began
    flagBefore,           \* hasLiveSnapshotRef before the last step
    failedCommits,        \* live commits of the burst whose document update threw
    capturedData,         \* the fingerprint stored when the session was initialized
    differed,             \* the dataset has differed from capturedData since then
    \* PieChartDataPoints / TableRow (one mounted editor of numeric fields)
    component,            \* which of the two components is modelled
    fieldValues,          \* selectedElement.values / the row's value per series
    displayValues,        \* useState({}): field key -> display string
    focusedInputs,        \* useRef(new Set())
    prevValuesRef,        \* prevValuesRef / prevSeriesRef
    isMountedRef,
    fstep,                \* the handler that took the last step, and its field
    fcalls,               \* the calls the last step made to its collaborator
    \* generateAllSlideThumbnails / generateSlideThumbnail
    deck,                 \* the slides argument; slide k of the deck has id k
    batchPc,              \* "idle", "awaiting" a render, "returned", "raised"
    slideIdx,             \* position of the for-of loop over the slides
    thumbnails,           \* the result array
    render,               \* the running generateSlideThumbnail call
    rstep,                \* the callback that took the last step
    \* the table and the gradient background of a rendered slide
    tableIn,              \* the table element
    tableOut,             \* the nodes the table branch added to the layer
    gradientIn,           \* slide.backgroundGradient
    gradientOut,          \* the color stops of the gradient rectangle
    dstep,
    \* two generateSlideThumbnail calls running at the same time
    pairSlides,           \* the slide of each call
    pair,                 \* each call's position and references
    surfaces,             \* the containers, stages and layers that exist
    pstep

editVars == <<isDataModalOpen, selectedId, hasLiveSnapshotRef, chartTypeOf, doc,
              labels, series, updateTimeoutRef, isInitialLoadRef, initializedRef,
              lastSavedDataRef, hasCleanup, timers, step, calls, cancelled,
              sinceChange,
              liveCount, snapCount, flagBefore, failedCommits, capturedData,
              differed>>

fieldVars == <<component, fieldValues, displayValues, focusedInputs,
               prevValuesRef, isMountedRef, fstep, fcalls>>

renderVars == <<deck, batchPc, slideIdx, thumbnails, render, rstep>>

drawVars == <<tableIn, tableOut, gradientIn, gradientOut, dstep>>

pairVars == <<pairSlides, pair, surfaces, pstep>>

vars == <<editVars, fieldVars, renderVars, drawVars, pairVars>>

\* the variables a part of the program leaves alone
nonEditVars == <<fieldVars, renderVars, drawVars, pairVars>>
nonFieldVars == <<editVars, renderVars, drawVars, pairVars>>
nonRenderVars == <<editVars, fieldVars, drawVars, pairVars>>
nonDrawVars == <<editVars, fieldVars, renderVars, pairVars>>
nonPairVars == <<editVars, fieldVars, renderVars, drawVars>>

\* ------------------------------------------------------------ pure helpers

\* the truthiness test of the element prop
HasElement(el) == el \in ElementIds

Min(a, b) == IF a < b THEN a ELSE b
Max(a, b) == IF a > b THEN a ELSE b

\* pads every series to the number of labels
PadValues(vals, n) == [i \in 1..n |-> IF i <= Len(vals) THEN vals[i] ELSE 0]

PadChartData(lbls, srs, chartType, el) ==
    [labels |-> lbls,
     series |-> [s \in 1..Len(srs) |-> PadValues(srs[s], Len(lbls))]]

JSONStringify(d) == ToString(d)

\* mutant: clearTimeout that cancels nothing
ClearTimeoutNoop(ts, id) == ts

\* clearTimeout(id): a no-op for an id that is not pending
ClearTimeout(ts, id) == {t \in ts : t.id # id}

TimerIds(ts) == {t.id : t \in ts}

\* setTimeout returns an id no pending timer has
FreshTimerId(ts, ref) ==
    CHOOSE i \in 1..(MaxTimers + 2) :
        /\ i \notin TimerIds(ts)
        /\ i # ref
        /\ \A j \in 1..(MaxTimers + 2) :
              (j \notin TimerIds(ts) /\ j # ref) => i <= j

\* the refs of one hook instance, as a record the effects transform
HookState ==
    [updateTimeoutRef |-> updateTimeoutRef,
     isInitialLoadRef |-> isInitialLoadRef,
     initializedRef |-> initializedRef,
     lastSavedDataRef |-> lastSavedDataRef,
     hasCleanup |-> hasCleanup,
     timers |-> timers]

\* useEffect(..., [isOpen]): reset when the modal opens or closes
ResetEffect(h, open) ==
    IF open
    THEN [h EXCEPT !.isInitialLoadRef = TRUE,
                   !.initializedRef = FALSE,
                   !.lastSavedDataRef = Null]
    ELSE [h EXCEPT !.timers = IF h.updateTimeoutRef # NoTimer
                              THEN ClearTimeout(h.timers, h.updateTimeoutRef)
                              ELSE h.timers,
                   !.updateTimeoutRef = NoTimer,
                   !.isInitialLoadRef = TRUE,
                   !.initializedRef = FALSE,
                   !.lastSavedDataRef = Null]

\* mutant: initialization stores no fingerprint of the initial data
InitializedEffectNoCapture(h, open, el, lbls, srs) ==
    IF open /\ HasElement(el) /\ Len(lbls) > 0 /\ Len(srs) > 0 /\ ~h.initializedRef
    THEN [h EXCEPT !.initializedRef = TRUE,
                   !.isInitialLoadRef = TRUE]
    ELSE h

\* useEffect(..., [isOpen, element, labels, series]): mark as initialized
InitializedEffect(h, open, el, lbls, srs) ==
    IF open /\ HasElement(el) /\ Len(lbls) > 0 /\ Len(srs) > 0 /\ ~h.initializedRef
    THEN [h EXCEPT !.lastSavedDataRef =
                       JSONStringify(PadChartData(lbls, srs, chartTypeOf[el], el)),
                   !.initializedRef = TRUE,
                   !.isInitialLoadRef = TRUE]
    ELSE h

\* mutant: the live effect returns no cleanup
LiveCleanupSkipped(h) == [h EXCEPT !.hasCleanup = FALSE]

\* the cleanup returned by the previous run of the live effect
LiveCleanup(h) ==
    IF h.hasCleanup
    THEN [h EXCEPT !.timers = IF h.updateTimeoutRef # NoTimer
                              THEN ClearTimeout(h.timers, h.updateTimeoutRef)
                              ELSE h.timers,
                   !.hasCleanup = FALSE]
    ELSE h

\* mutant: the live effect arms no timer
ArmTimerDropped(h, el, lbls, srs) == h

\* the tail of the live effect: clear the existing timeout, arm a new one
ArmTimer(h, el, lbls, srs) ==
    LET cleared == IF h.updateTimeoutRef # NoTimer
                   THEN ClearTimeout(h.timers, h.updateTimeoutRef)
                   ELSE h.timers
        id == FreshTimerId(cleared, h.updateTimeoutRef)
    IN [h EXCEPT !.timers = cleared \cup
                     {[id |-> id, labels |-> lbls, series |-> srs,
                       element |-> el, left |-> DebounceMs]},
                 !.updateTimeoutRef = id,
                 !.hasCleanup = TRUE]

\* mutant: the live effect does not exclude pie charts
LiveEffectForEveryType(h, open, el, lbls, srs) ==
    IF ~open \/ ~HasElement(el) \/ Len(lbls) = 0 \/ Len(srs) = 0 THEN h
    ELSE IF ~h.initializedRef THEN h
    ELSE LET cur == JSONStringify(PadChartData(lbls, srs, chartTypeOf[el], el))
         IN IF h.isInitialLoadRef /\ cur = h.lastSavedDataRef THEN h
            ELSE LET h1 == [h EXCEPT !.isInitialLoadRef = FALSE]
                 IN IF cur = h1.lastSavedDataRef THEN h1
                    ELSE ArmTimer(h1, el, lbls, srs)

\* useEffect(..., [labels, series, isOpen, element]): the live update
LiveEffect(h, open, el, lbls, srs) ==
    IF ~open \/ ~HasElement(el) \/ Len(lbls) = 0 \/ Len(srs) = 0 THEN h
    ELSE IF chartTypeOf[el] = "pie" THEN h
    ELSE IF ~h.initializedRef THEN h
    ELSE LET cur == JSONStringify(PadChartData(lbls, srs, chartTypeOf[el], el))
         IN IF h.isInitialLoadRef /\ cur = h.lastSavedDataRef THEN h
            ELSE LET h1 == [h EXCEPT !.isInitialLoadRef = FALSE]
                 IN IF cur = h1.lastSavedDataRef THEN h1
                    ELSE ArmTimer(h1, el, lbls, srs)

\* One commit of a render of the modal: cleanups first, then the effects whose
\* dependencies changed, in hook order.
RunEffects(h, openChanged, open, el, lbls, srs) ==
    LET h0 == LiveCleanup(h)
        h1 == IF openChanged THEN ResetEffect(h0, open) ELSE h0
        h2 == InitializedEffect(h1, open, el, lbls, srs)
    IN LiveEffect(h2, open, el, lbls, srs)

\* the refs after a step; pending are the timers the step could still clear
SetHook(h, pending) ==
    /\ cancelled' = Cardinality({t \in pending : t.id \notin TimerIds(h.timers)})
    /\ updateTimeoutRef' = h.updateTimeoutRef
    /\ isInitialLoadRef' = h.isInitialLoadRef
    /\ initializedRef' = h.initializedRef
    /\ lastSavedDataRef' = h.lastSavedDataRef
    /\ hasCleanup' = h.hasCleanup
    /\ timers' = h.timers
    /\ capturedData' = IF ~h.initializedRef THEN Null
                       ELSE IF ~initializedRef
                            THEN JSONStringify(PadChartData(labels', series',
                                     chartTypeOf[selectedId'], selectedId'))
                       ELSE capturedData
    /\ differed' = /\ h.initializedRef
                   /\ \/ initializedRef /\ differed
                      \/ /\ Len(labels') > 0
                         /\ JSONStringify(PadChartData(labels', series',
                                chartTypeOf[selectedId'], selectedId')) # capturedData'

\* --------------------------------------------------- ChartOptions.handleSaveData

\* pushSnapshot({slides, selectedElement, currentSlideIndex}) with the props of
\* the render that created the handler
PushSnapshotCall(throws) ==
    [op |-> "pushSnapshot", slides |-> doc, selectedElement |-> selectedId,
     throws |-> throws]

UpdateCall(id, data, internal, isLive, throws) ==
    [op |-> "updateSlideElement", id |-> id, data |-> data,
     internal |-> internal, isLive |-> isLive, throws |-> throws]

\* mutant: the Save button always suppresses the host's snapshot
HandleSaveDataSaveMarked(flag, id, updates, isLive, snapThrows, updThrows) ==
    IF isLive
    THEN [calls |-> <<PushSnapshotCall(snapThrows),
                      UpdateCall(id, updates, "chart-live", TRUE, updThrows)>>,
          flag |-> TRUE]
    ELSE [calls |-> <<UpdateCall(id, updates, "chart-save", FALSE, updThrows)>>,
          flag |-> flag /\ updThrows]

\* mutant: a live update changes the document before it asks for the snapshot
HandleSaveDataUpdateFirst(flag, id, updates, isLive, snapThrows, updThrows) ==
    IF isLive
    THEN [calls |-> <<UpdateCall(id, updates, "chart-live", TRUE, updThrows),
                      PushSnapshotCall(snapThrows)>>,
          flag |-> TRUE]
    ELSE IF flag
         THEN [calls |-> <<UpdateCall(id, updates, "chart-save", FALSE, updThrows)>>,
               flag |-> updThrows]
         ELSE [calls |-> <<UpdateCall(id, updates, "none", FALSE, updThrows)>>,
               flag |-> FALSE]

\* mutant: a throwing pushSnapshot is not caught and ends the live update
HandleSaveDataUncaught(flag, id, updates, isLive, snapThrows, updThrows) ==
    IF isLive
    THEN IF snapThrows
         THEN [calls |-> <<PushSnapshotCall(TRUE)>>, flag |-> flag]
         ELSE [calls |-> <<PushSnapshotCall(FALSE),
                           UpdateCall(id, updates, "chart-live", TRUE, updThrows)>>,
               flag |-> TRUE]
    ELSE IF flag
         THEN [calls |-> <<UpdateCall(id, updates, "chart-save", FALSE, updThrows)>>,
               flag |-> updThrows]
         ELSE [calls |-> <<UpdateCall(id, updates, "none", FALSE, updThrows)>>,
               flag |-> FALSE]

\* the calls handleSaveData makes, in order, and the flag it leaves: a throwing
\* updateSlideElement leaves the handler before the flag is cleared
HandleSaveData(flag, id, updates, isLive, snapThrows, updThrows) ==
    IF ~HasElement(id) THEN [calls |-> <<>>, flag |-> flag]
    ELSE IF isLive
    THEN [calls |-> <<PushSnapshotCall(snapThrows),
                      UpdateCall(id, updates, "chart-live", TRUE, updThrows)>>,
          flag |-> TRUE]
    ELSE IF flag
         THEN [calls |-> <<UpdateCall(id, updates, "chart-save", FALSE, updThrows)>>,
               flag |-> updThrows]
         ELSE [calls |-> <<UpdateCall(id, updates, "none", FALSE, updThrows)>>,
               flag |-> FALSE]

IsUpdate(c) == c.op = "updateSlideElement"
IsSnapshot(c) == c.op = "pushSnapshot"

CountSnapshots(cs) == Cardinality({i \in DOMAIN cs : IsSnapshot(cs[i])})

\* updateSlideElement applied to the document
ApplyCalls(d, cs) ==
    IF \E i \in DOMAIN cs : IsUpdate(cs[i]) /\ ~cs[i].throws
    THEN LET i == CHOOSE k \in DOMAIN cs : IsUpdate(cs[k])
         IN [d EXCEPT ![cs[i].id] = cs[i].data]
    ELSE d

Applied(cs) == \E i \in DOMAIN cs : IsUpdate(cs[i]) /\ ~cs[i].throws

\* mutant: the flag survives a change of the target and of the modal
FlagResetSkipped(flag) == flag

\* useEffect(..., [selectedElement?.id, isDataModalOpen]) of ChartOptions
FlagResetEffect(flag) == FALSE

\* mutant: a commit that throws leaves the session uninitialized
TimerCallbackHalts(h, t, fingerprint, throws) ==
    [h EXCEPT !.timers = h.timers \ {t},
              !.lastSavedDataRef = fingerprint,
              !.initializedRef = ~throws]

\* the refs after the setTimeout callback ran: the fingerprint is assigned
\* before onSave is called, so it is kept when the call throws
TimerCallback(h, t, fingerprint, throws) ==
    [h EXCEPT !.timers = h.timers \ {t},
              !.lastSavedDataRef = fingerprint]

\* ------------------------------------------------------------------ Init

\* the chart data the document holds for element e before any edit
InitialData(e) == [labels |-> <<"a">>, series |-> <<<<Min(e - 1, MaxVal)>>>>]

EditInit ==
    /\ isDataModalOpen = FALSE
    /\ selectedId \in ElementIds
    /\ hasLiveSnapshotRef = FALSE
    /\ chartTypeOf \in {[e \in ElementIds |-> IF e = 1 THEN "bar" ELSE t] :
                           t \in {"line", "pie"}}
    /\ doc = [e \in ElementIds |-> InitialData(e)]
    /\ labels = <<>>
    /\ series = <<>>
    /\ updateTimeoutRef = NoTimer
    /\ isInitialLoadRef = TRUE
    /\ initializedRef = FALSE
    /\ lastSavedDataRef = Null
    /\ hasCleanup = FALSE
    /\ timers = {}
    /\ step = "Init"
    /\ calls = <<>>
    /\ cancelled = 0
    /\ sinceChange = DebounceMs
    /\ liveCount = 0
    /\ snapCount = 0
    /\ flagBefore = FALSE
    /\ failedCommits = 0
    /\ capturedData = Null
    /\ differed = FALSE

\* --------------------------------------------------------------- actions

\* handleEditDataClick: the modal opens with no data loaded yet
OpenModal ==
    /\ UNCHANGED nonEditVars
    /\ flagBefore' = hasLiveSnapshotRef
    /\ failedCommits' = 0
    /\ ~isDataModalOpen
    /\ isDataModalOpen' = TRUE
    /\ hasLiveSnapshotRef' = FlagResetEffect(hasLiveSnapshotRef)
    /\ labels' = <<>>
    /\ series' = <<>>
    /\ SetHook(RunEffects(HookState, TRUE, TRUE, selectedId, <<>>, <<>>), timers)
    /\ step' = "OpenModal"
    /\ calls' = <<>>
    /\ sinceChange' = 0
    /\ liveCount' = 0
    /\ snapCount' = 0
    /\ UNCHANGED <<selectedId, chartTypeOf, doc>>

\* the modal loads the labels and series of its element
LoadData ==
    /\ UNCHANGED nonEditVars
    /\ flagBefore' = hasLiveSnapshotRef
    /\ UNCHANGED failedCommits
    /\ isDataModalOpen
    /\ labels = <<>>
    /\ labels' = doc[selectedId].labels
    /\ series' = doc[selectedId].series
    /\ SetHook(RunEffects(HookState, FALSE, TRUE, selectedId,
                          doc[selectedId].labels, doc[selectedId].series), timers)
    /\ step' = "LoadData"
    /\ calls' = <<>>
    /\ sinceChange' = 0
    /\ UNCHANGED <<isDataModalOpen, selectedId, hasLiveSnapshotRef, chartTypeOf,
                   doc, liveCount, snapCount>>

\* a render of the modal after the user changed labels or series
Edited(lbls, srs) ==
    /\ Cardinality(timers) < MaxTimers
    /\ labels' = lbls
    /\ series' = srs
    /\ SetHook(RunEffects(HookState, FALSE, isDataModalOpen, selectedId, lbls, srs),
               timers)
    /\ calls' = <<>>
    /\ sinceChange' = 0
    /\ UNCHANGED <<isDataModalOpen, selectedId, hasLiveSnapshotRef, chartTypeOf,
                   doc, liveCount, snapCount>>

Loaded == isDataModalOpen /\ Len(labels) > 0

\* the user types another value into a cell of the series
SetValue ==
    /\ UNCHANGED nonEditVars
    /\ flagBefore' = hasLiveSnapshotRef
    /\ UNCHANGED failedCommits
    /\ Loaded
    /\ \E i \in 1..Len(labels), v \in ValueSet :
          /\ v # PadValues(series[1], Len(labels))[i]
          /\ Edited(labels, [series EXCEPT ![1] = [PadValues(series[1], Len(labels))
                                                       EXCEPT ![i] = v]])
    /\ step' = "SetValue"

\* the user types another text into a label cell
SetLabel ==
    /\ UNCHANGED nonEditVars
    /\ flagBefore' = hasLiveSnapshotRef
    /\ UNCHANGED failedCommits
    /\ Loaded
    /\ \E i \in 1..Len(labels), l \in LabelSet :
          /\ l # labels[i]
          /\ Edited([labels EXCEPT ![i] = l], series)
    /\ step' = "SetLabel"

\* time passes
Tick ==
    /\ UNCHANGED nonEditVars
    /\ flagBefore' = hasLiveSnapshotRef
    /\ UNCHANGED failedCommits
    /\ timers # {} \/ sinceChange < DebounceMs
    /\ labels # <<>> \/ ~isDataModalOpen
    /\ timers' = {[t EXCEPT !.left = Max(0, t.left - TickMs)] : t \in timers}
    /\ sinceChange' = Min(DebounceMs, sinceChange + TickMs)
    /\ step' = "Tick"
    /\ calls' = <<>>
    /\ cancelled' = 0
    /\ UNCHANGED <<isDataModalOpen, selectedId, hasLiveSnapshotRef, chartTypeOf,
                   doc, labels, series, updateTimeoutRef, isInitialLoadRef,
                   initializedRef, lastSavedDataRef, hasCleanup, liveCount,
                   snapCount, capturedData, differed>>

\* the setTimeout callback of the live effect runs
TimerFire ==
    /\ UNCHANGED nonEditVars
    /\ flagBefore' = hasLiveSnapshotRef
    /\ liveCount < MaxLive
    /\ \E t \in timers, snapThrows \in BOOLEAN, updThrows \in BOOLEAN :
        /\ t.left = 0
        /\ LET finalData == PadChartData(t.labels, t.series,
                                         chartTypeOf[t.element], t.element)
               r == HandleSaveData(hasLiveSnapshotRef, selectedId, finalData,
                                   TRUE, snapThrows, updThrows)
               fired == TimerCallback(HookState, t, JSONStringify(finalData),
                                      ~Applied(r.calls))
           IN /\ calls' = r.calls
              /\ hasLiveSnapshotRef' = r.flag
              /\ doc' = ApplyCalls(doc, r.calls)
              /\ liveCount' = liveCount + 1
              /\ failedCommits' = failedCommits + (IF Applied(r.calls) THEN 0 ELSE 1)
              /\ snapCount' = snapCount + CountSnapshots(r.calls)
              \* the document update re-renders the modal with a new element object
              /\ SetHook(IF Applied(r.calls)
                         THEN RunEffects(fired, FALSE, isDataModalOpen, selectedId,
                                         labels, series)
                         ELSE fired,
                         timers \ {t})
    /\ step' = "TimerFire"
    /\ UNCHANGED <<isDataModalOpen, selectedId, chartTypeOf, labels, series,
                   sinceChange>>

\* the Save button: onSave(data) without options, then the modal closes; a
\* throwing updateSlideElement leaves the handler before the close, with no
\* state changed and so no render
SaveData ==
    /\ UNCHANGED nonEditVars
    /\ flagBefore' = hasLiveSnapshotRef
    /\ UNCHANGED failedCommits
    /\ Loaded
    /\ \E updThrows \in BOOLEAN :
        LET data == PadChartData(labels, series, chartTypeOf[selectedId], selectedId)
            r == HandleSaveData(hasLiveSnapshotRef, selectedId, data, FALSE,
                                FALSE, updThrows)
        IN /\ calls' = r.calls
           /\ doc' = ApplyCalls(doc, r.calls)
           /\ IF updThrows
              THEN /\ hasLiveSnapshotRef' = r.flag
                   /\ UNCHANGED <<isDataModalOpen, labels, series>>
                   /\ SetHook(HookState, timers)
              ELSE /\ hasLiveSnapshotRef' = FlagResetEffect(r.flag)
                   /\ isDataModalOpen' = FALSE
                   /\ labels' = <<>>
                   /\ series' = <<>>
                   /\ SetHook(RunEffects(HookState, TRUE, FALSE, selectedId,
                                         <<>>, <<>>), timers)
    /\ step' = "SaveData"
    /\ UNCHANGED <<selectedId, chartTypeOf, sinceChange, liveCount, snapCount>>

\* onClose: the modal closes without saving
CloseModal ==
    /\ UNCHANGED nonEditVars
    /\ flagBefore' = hasLiveSnapshotRef
    /\ UNCHANGED failedCommits
    /\ isDataModalOpen
    /\ isDataModalOpen' = FALSE
    /\ hasLiveSnapshotRef' = FlagResetEffect(hasLiveSnapshotRef)
    /\ labels' = <<>>
    /\ series' = <<>>
    /\ SetHook(RunEffects(HookState, TRUE, FALSE, selectedId, <<>>, <<>>), timers)
    /\ step' = "CloseModal"
    /\ calls' = <<>>
    /\ UNCHANGED <<selectedId, chartTypeOf, doc, sinceChange, liveCount, snapCount>>

\* another chart element is selected; an open modal shows the new element's data
SwitchElement ==
    /\ UNCHANGED nonEditVars
    /\ flagBefore' = hasLiveSnapshotRef
    /\ failedCommits' = 0
    /\ labels # <<>> \/ ~isDataModalOpen
    /\ \E e \in ElementIds \ {selectedId} :
        LET lbls == IF isDataModalOpen THEN doc[e].labels ELSE <<>>
            srs == IF isDataModalOpen THEN doc[e].series ELSE <<>>
        IN /\ selectedId' = e
           /\ labels' = lbls
           /\ series' = srs
           /\ SetHook(RunEffects(HookState, FALSE, isDataModalOpen, e, lbls, srs),
                      timers)
    /\ hasLiveSnapshotRef' = FlagResetEffect(hasLiveSnapshotRef)
    /\ step' = "SwitchElement"
    /\ calls' = <<>>
    /\ sinceChange' = IF isDataModalOpen THEN 0 ELSE sinceChange
    /\ liveCount' = 0
    /\ snapCount' = 0
    /\ UNCHANGED <<isDataModalOpen, chartTypeOf, doc>>

EditNext ==
    \/ OpenModal
    \/ LoadData
    \/ SetValue
    \/ SetLabel
    \/ Tick
    \/ TimerFire
    \/ SaveData
    \/ CloseModal
    \/ SwitchElement

\* ------------------------------------- numeric fields: strings and numbers

\* Strings of the inputs are sequences of one-character strings.
Digits == {"0", "1", "2", "3", "4", "5", "6", "7", "8", "9"}
Undefined == <<"undefined">>
EmptyString == <<>>

\* what the user types into a numeric field
TypedInputs ==
    {EmptyString, <<"0">>, <<"1">>, <<"0", "1">>, <<"-", "1">>, <<"a">>}

DigitValue(c) == CHOOSE d \in 0..9 : ToString(d) = c

RECURSIVE DecimalValue(_)
DecimalValue(str) ==
    IF str = <<>> THEN 0
    ELSE 10 * DecimalValue(SubSeq(str, 1, Len(str) - 1)) + DigitValue(str[Len(str)])

IsDigits(str) == Len(str) > 0 /\ \A i \in DOMAIN str : str[i] \in Digits

\* Number(value) on the strings of the model's alphabet
ToNumber(str) ==
    IF str = <<>> THEN [nan |-> FALSE, n |-> 0]
    ELSE IF IsDigits(str) THEN [nan |-> FALSE, n |-> DecimalValue(str)]
    ELSE IF str[1] = "-" /\ IsDigits(Tail(str))
         THEN [nan |-> FALSE, n |-> 0 - DecimalValue(Tail(str))]
    ELSE [nan |-> TRUE, n |-> 0]

\* mutant: a negative number is committed as it is
ClampValueSigned(str) ==
    LET num == ToNumber(str) IN IF num.nan THEN 0 ELSE num.n

\* Math.max(0, isNaN(num) ? 0 : num)
ClampValue(str) ==
    LET num == ToNumber(str) IN Max(0, IF num.nan THEN 0 ELSE num.n)

\* value.toString()
RECURSIVE NumberToString(_)
NumberToString(n) ==
    IF n < 0 THEN <<"-">> \o NumberToString(0 - n)
    ELSE IF n < 10 THEN <<ToString(n)>>
    ELSE NumberToString(n \div 10) \o <<ToString(n % 10)>>

\* mutant: a value of 0 is shown as "0"
DisplayOfZeroShown(value) == NumberToString(value)

\* the display string of a committed value: '' for 0, else its decimal text
DisplayOf(value) == IF value = 0 THEN EmptyString ELSE NumberToString(value)

IsBlank(str) == str = EmptyString \/ str = Undefined

FieldKeys == 1..MaxPoints
Keys(vals) == 1..Len(vals)

\* mutant: the refresh also overwrites the focused fields
SyncDisplayOverwritesFocused(display, focused, prev, cur) ==
    IF prev # cur
    THEN [display |-> [k \in FieldKeys |->
                          IF k \in Keys(cur) THEN DisplayOf(cur[k]) ELSE display[k]],
          prev |-> cur]
    ELSE [display |-> display, prev |-> prev]

\* useEffect(..., [selectedElement.values]) / useEffect(..., [series, rowIndex]):
\* refresh the display of the fields that are not focused
SyncDisplay(display, focused, prev, cur) ==
    IF JSONStringify(prev) # JSONStringify(cur)
    THEN [display |-> [k \in FieldKeys |->
                          IF k \in Keys(cur) /\ k \notin focused
                          THEN DisplayOf(cur[k])
                          ELSE display[k]],
          prev |-> cur]
    ELSE [display |-> display, prev |-> prev]

\* the mount effect: one display string per value
InitialDisplay(vals) ==
    [k \in FieldKeys |-> IF k \in Keys(vals) THEN DisplayOf(vals[k]) ELSE Undefined]

\* the collaborator call of a commit: updateSlideElement(id, {values}) for the
\* pie editor, onValueChange(seriesIndex, rowIndex, text) for a table row
CommitCall(comp, vals, k, text) ==
    IF comp = "PieChartDataPoints"
    THEN [op |-> "updateSlideElement",
          values |-> [vals EXCEPT ![k] = ClampValue(text)]]
    ELSE [op |-> "onValueChange", key |-> k, value |-> text]

\* the values the collaborator holds after the call
CommittedValues(vals, k, text) == [vals EXCEPT ![k] = ClampValue(text)]

\* mutant: a blur commits nothing
BlurCommitNothing(comp, vals, display, k) == <<>>

\* handleValueBlur: an empty display string commits 0
BlurCommit(comp, vals, display, k) ==
    IF IsBlank(display[k])
    THEN <<IF comp = "PieChartDataPoints"
           THEN [op |-> "updateSlideElement", values |-> [vals EXCEPT ![k] = 0]]
           ELSE [op |-> "onValueChange", key |-> k, value |-> <<"0">>]>>
    ELSE <<>>

\* mutant: an empty text is committed like any other
ChangeCommitAlways(comp, vals, k, text) == <<CommitCall(comp, vals, k, text)>>

\* handleValueChange: a non-empty text is committed, an empty one is not
ChangeCommit(comp, vals, k, text) ==
    IF text # EmptyString THEN <<CommitCall(comp, vals, k, text)>> ELSE <<>>

ValueVectors == UNION {[1..n -> ValueSet] : n \in 1..MaxPoints}

FieldInit ==
    /\ component \in {"PieChartDataPoints", "TableRow"}
    /\ fieldValues = [k \in FieldKeys |-> Min(k - 1, MaxVal)]
    /\ displayValues = InitialDisplay(fieldValues)
    /\ focusedInputs = {}
    /\ prevValuesRef = fieldValues
    /\ isMountedRef = TRUE
    /\ fstep = [op |-> "Mount", key |-> 0]
    /\ fcalls = <<>>

\* render after a step: the sync effect runs on the new values
AfterRender(display, focused, vals) ==
    LET r == SyncDisplay(display, focused, prevValuesRef, vals)
    IN /\ displayValues' = r.display
       /\ prevValuesRef' = r.prev
       /\ focusedInputs' = focused
       /\ fieldValues' = vals

\* onFocus of the input of field k (one input has the focus at a time)
HandleValueFocus ==
    /\ UNCHANGED nonFieldVars
    /\ isMountedRef
    /\ focusedInputs \cap Keys(fieldValues) = {}
    /\ \E k \in Keys(fieldValues) :
        /\ focusedInputs' = focusedInputs \cup {k}
        /\ fstep' = [op |-> "Focus", key |-> k]
    /\ fcalls' = <<>>
    /\ UNCHANGED <<component, fieldValues, displayValues, prevValuesRef, isMountedRef>>

\* onChange of the focused input
HandleValueChange ==
    /\ UNCHANGED nonFieldVars
    /\ isMountedRef
    /\ \E k \in focusedInputs \cap Keys(fieldValues), text \in TypedInputs :
        /\ text # displayValues[k]
        /\ fcalls' = ChangeCommit(component, fieldValues, k, text)
        /\ AfterRender([displayValues EXCEPT ![k] = text], focusedInputs,
                       IF text # EmptyString
                       THEN CommittedValues(fieldValues, k, text)
                       ELSE fieldValues)
        /\ fstep' = [op |-> "Change", key |-> k]
    /\ UNCHANGED <<component, isMountedRef>>

\* onBlur of the focused input
HandleValueBlur ==
    /\ UNCHANGED nonFieldVars
    /\ isMountedRef
    /\ \E k \in focusedInputs \cap Keys(fieldValues) :
        LET cs == BlurCommit(component, fieldValues, displayValues, k)
        IN /\ fcalls' = cs
           /\ AfterRender(IF cs # <<>>
                          THEN [displayValues EXCEPT ![k] = EmptyString]
                          ELSE displayValues,
                          focusedInputs \ {k},
                          IF cs # <<>>
                          THEN [fieldValues EXCEPT ![k] = 0]
                          ELSE fieldValues)
           /\ fstep' = [op |-> "Blur", key |-> k]
    /\ UNCHANGED <<component, isMountedRef>>

\* another part of the program replaces the values (also: another element of the
\* same kind becomes the selected one)
ExternalUpdate ==
    /\ UNCHANGED nonFieldVars
    /\ isMountedRef
    /\ \E vals \in ValueVectors :
        /\ vals # fieldValues
        /\ AfterRender(displayValues, focusedInputs, vals)
    /\ fstep' = [op |-> "External", key |-> 0]
    /\ fcalls' = <<>>
    /\ UNCHANGED <<component, isMountedRef>>

\* the editor is removed: its state and refs are dropped
Unmount ==
    /\ UNCHANGED nonFieldVars
    /\ isMountedRef
    /\ isMountedRef' = FALSE
    /\ displayValues' = [k \in FieldKeys |-> Undefined]
    /\ focusedInputs' = {}
    /\ prevValuesRef' = fieldValues
    /\ fstep' = [op |-> "Unmount", key |-> 0]
    /\ fcalls' = <<>>
    /\ UNCHANGED <<component, fieldValues>>

\* the editor is shown again: the mount effect initializes the display strings
Mount ==
    /\ UNCHANGED nonFieldVars
    /\ ~isMountedRef
    /\ isMountedRef' = TRUE
    /\ displayValues' = InitialDisplay(fieldValues)
    /\ focusedInputs' = {}
    /\ prevValuesRef' = fieldValues
    /\ fstep' = [op |-> "Mount", key |-> 0]
    /\ fcalls' = <<>>
    /\ UNCHANGED <<component, fieldValues>>

\* the values change while no editor is mounted
ExternalUpdateUnmounted ==
    /\ UNCHANGED nonFieldVars
    /\ ~isMountedRef
    /\ \E vals \in ValueVectors :
        /\ vals # fieldValues
        /\ fieldValues' = vals
        /\ prevValuesRef' = vals
    /\ fstep' = [op |-> "External", key |-> 0]
    /\ fcalls' = <<>>
    /\ UNCHANGED <<component, displayValues, focusedInputs, isMountedRef>>

FieldNext ==
    \/ HandleValueFocus
    \/ HandleValueChange
    \/ HandleValueBlur
    \/ ExternalUpdate
    \/ Unmount
    \/ Mount
    \/ ExternalUpdateUnmounted

\* ------------------------------------------------ generateThumbnail.js: data

\* what the URL of an image resource does when it is loaded
ImageSources == {"good", "bad", "dead"}

\* what the rasterizer and the decoder do with a chart element
ChartSources == {"good", "rasterFail", "decodeFail", "dead"}

\* the element types the render knows, an unknown type, and a null entry
SyncTypes == {"text", "shape", "table", "video", "null"}

\* the rows and cols of the table elements that have both fields
TableRowCounts == {3}
TableColCounts == {2}

\* table elements with rows and cols; the table of SyncTypes has neither
TableElements ==
    {[type |-> "table", src |-> "none", rows |-> r, cols |-> c] :
        r \in TableRowCounts, c \in TableColCounts}

ElementSet ==
    {[type |-> t, src |-> "none"] : t \in SyncTypes}
        \cup TableElements
        \cup {[type |-> "image", src |-> u] : u \in ImageSources}
        \cup {[type |-> "chart", src |-> u] : u \in ChartSources}

ElementSeqs == UNION {[1..n -> ElementSet] : n \in 0..MaxElements}

ObjectSlides ==
    [kind : {"object"}, backgroundImage : {"none"} \cup ImageSources,
     backgroundGradient : BOOLEAN, backgroundColor : BOOLEAN,
     elements : ElementSeqs]

\* a slide entry that is null or undefined, or an object without any field
BareSlide(kind) ==
    [kind |-> kind, backgroundImage |-> "none", backgroundGradient |-> FALSE,
     backgroundColor |-> FALSE, elements |-> <<>>]

IsNullish(slide) == slide.kind \in {"null", "undefined"}

SimpleSlides ==
    {BareSlide("null"), BareSlide("undefined"), BareSlide("object"),
     [BareSlide("object") EXCEPT !.backgroundImage = "bad"],
     [BareSlide("object") EXCEPT !.elements = <<[type |-> "text", src |-> "none"]>>]}

Decks ==
    {<<sl>> : sl \in ObjectSlides}
        \cup UNION {[1..n -> SimpleSlides] : n \in {0} \cup 2..MaxSlides}

\* a node of the Konva layer: what it draws and the element it belongs to
\* (element 0 is the background)
Node(el, kind) == [el |-> el, kind |-> kind]

\* a resource load in flight: the element it belongs to and what is awaited
Load(el, stage) == [el |-> el, stage |-> stage]

\* ------------------------------------------ generateSlideThumbnail: helpers

\* mutant: layer.add puts the node below the nodes already there
LayerAddBelow(lyr, nodes) == nodes \o lyr

\* layer.add
LayerAdd(lyr, nodes) == lyr \o nodes

\* mutant: the loop starts a resource load and goes on without waiting for it
NotAwaited(type) == FALSE

\* the loop awaits the promise of an image load and of a chart rasterization
Awaited(type) == type \in {"image", "chart"}

\* mutant: a failed chart leaves no placeholder
NoPlaceholder(i) == <<>>

\* the placeholder rectangle of a failed chart
Placeholder(i) == <<Node(i, "placeholder")>>

\* element.rows and element.cols, 0 when the element has no such field
TableRows(e) == IF "rows" \in DOMAIN e THEN e.rows ELSE 0
TableCols(e) == IF "cols" \in DOMAIN e THEN e.cols ELSE 0

\* the grid lines of a table: none unless rows and cols are both given, else
\* rows - 1 horizontal and cols - 1 vertical ones
GridLineCount(e) ==
    IF TableRows(e) # 0 /\ TableCols(e) # 0
    THEN (TableRows(e) - 1) + (TableCols(e) - 1)
    ELSE 0

\* the nodes an element adds without waiting for a resource
SyncNodes(e, i) ==
    CASE e.type = "text"  -> <<Node(i, "text")>>
      [] e.type = "shape" -> <<Node(i, "shape")>>
      [] e.type = "table" ->
            <<Node(i, "tableRect")>> \o
                [k \in 1..GridLineCount(e) |-> Node(i, "line")]
      [] OTHER            -> <<>>

\* mutant: the solid color is looked at before the image
BackgroundColorFirst(slide) ==
    IF slide.backgroundColor THEN "color"
    ELSE IF slide.backgroundImage # "none" THEN "image"
    ELSE IF slide.backgroundGradient THEN "gradient"
    ELSE "white"

\* the if-else chain that chooses the background
BackgroundKind(slide) ==
    IF slide.backgroundImage # "none" THEN "image"
    ELSE IF slide.backgroundGradient THEN "gradient"
    ELSE IF slide.backgroundColor THEN "color"
    ELSE "white"

\* the for-of loop over the elements, run from element i until it awaits a
\* resource or ends: the layer, the loads started, and where the loop stands
RECURSIVE RunElements(_, _, _, _)
RunElements(els, i, lyr, pend) ==
    IF i > Len(els)
    THEN [layer |-> lyr, pending |-> pend, idx |-> i]
    ELSE LET e == els[i]
             started == pend \cup
                 {Load(i, IF e.type = "chart" THEN "raster" ELSE "image")}
         IN IF e.type \in {"image", "chart"}
            THEN IF Awaited(e.type)
                 THEN [layer |-> lyr, pending |-> started, idx |-> i]
                 ELSE RunElements(els, i + 1, lyr, started)
            ELSE RunElements(els, i + 1, LayerAdd(lyr, SyncNodes(e, i)), pend)

\* no generateSlideThumbnail call is running
NoRender ==
    [rpc |-> "none", surface |-> "none", containerInDom |-> FALSE,
     stageAlive |-> FALSE, layer |-> <<>>, elemIdx |-> 0, pending |-> {},
     result |-> "none", dataURL |-> <<>>]

\* mutant: the catch of the render does not settle the promise
RejectDropped(r) == r

\* mutant: the catch of the render resolves with what was painted so far
RejectedAsResolved(r) ==
    [r EXCEPT !.rpc = "settled", !.result = "resolved", !.dataURL = r.layer]

\* reject(error) in the catch of the render: nothing is released
Rejected(r) == [r EXCEPT !.rpc = "settled", !.result = "rejected"]

\* mutant: the element loop ends at the first element it is resumed at
ContinueToEnd(r, els, i) ==
    [r EXCEPT !.elemIdx = Len(els) + 1, !.rpc = "delay"]

\* the element loop from element i on, then layer.draw and the 100 ms wait
Continue(r, els, i) ==
    LET x == RunElements(els, i, r.layer, r.pending)
    IN [r EXCEPT !.layer = x.layer, !.pending = x.pending, !.elemIdx = x.idx,
                 !.rpc = IF x.idx > Len(els) THEN "delay" ELSE "element"]

\* the render of one slide from its call to its first await
BeginRender(slide, surface) ==
    LET acquired == [NoRender EXCEPT !.surface = surface,
                                     !.containerInDom = surface # "noContainer",
                                     !.stageAlive = surface = "ok"]
    IN IF surface # "ok" \/ IsNullish(slide)
       THEN Rejected(acquired)
       ELSE IF BackgroundKind(slide) = "image"
            THEN [acquired EXCEPT !.rpc = "background",
                                  !.pending = {Load(0, "image")}]
            ELSE Continue([acquired EXCEPT
                              !.layer = <<Node(0, BackgroundKind(slide))>>],
                          slide.elements, 1)

\* a resource of element ld.el settled and its callback changed the layer to
\* lyr: the awaiting loop, if it waits for this element, goes on
Resume(r, els, ld, lyr) ==
    LET r1 == [r EXCEPT !.layer = lyr, !.pending = @ \ {ld}]
    IN IF r.rpc = "element" /\ r.elemIdx = ld.el
       THEN Continue(r1, els, ld.el + 1)
       ELSE r1

\* toDataURL, stage.destroy, removeChild, resolve
Finish(r, throws) ==
    IF throws
    THEN Rejected(r)
    ELSE [r EXCEPT !.rpc = "settled", !.result = "resolved",
                   !.dataURL = r.layer, !.stageAlive = FALSE,
                   !.containerInDom = FALSE]

\* ------------------------------------------------------ render: Init, actions

RenderInit ==
    /\ deck \in Decks
    /\ batchPc = "idle"
    /\ slideIdx = 0
    /\ thumbnails = <<>>
    /\ render = NoRender
    /\ rstep = "Init"

Slide == deck[slideIdx]

Rendering == batchPc = "awaiting" /\ render.rpc \notin {"none", "settled"}

\* the loop of generateAllSlideThumbnails reaches slide i: it calls the render
\* of that slide and awaits it, or returns the array after the last slide
CallRender(i) ==
    /\ slideIdx' = i
    /\ IF i > Len(deck)
       THEN /\ batchPc' = "returned"
            /\ render' = NoRender
       ELSE /\ batchPc' = "awaiting"
            /\ \E surface \in {"ok", "noContainer", "noStage"} :
                  render' = BeginRender(deck[i], surface)

\* generateAllSlideThumbnails(slides) is called
GenerateAllSlideThumbnails ==
    /\ UNCHANGED nonRenderVars
    /\ batchPc = "idle"
    /\ CallRender(1)
    /\ rstep' = "GenerateAllSlideThumbnails"
    /\ UNCHANGED <<deck, thumbnails>>

\* img.onload of the background image
BackgroundLoaded ==
    /\ UNCHANGED nonRenderVars
    /\ Rendering
    /\ Load(0, "image") \in render.pending
    /\ Slide.backgroundImage = "good"
    /\ render' = Continue([render EXCEPT
                              !.layer = LayerAdd(@, <<Node(0, "image")>>),
                              !.pending = @ \ {Load(0, "image")}],
                          Slide.elements, 1)
    /\ rstep' = "BackgroundLoaded"
    /\ UNCHANGED <<deck, batchPc, slideIdx, thumbnails>>

\* img.onerror of the background image: the awaited promise rejects
BackgroundFailed ==
    /\ UNCHANGED nonRenderVars
    /\ Rendering
    /\ Load(0, "image") \in render.pending
    /\ Slide.backgroundImage = "bad"
    /\ render' = Rejected([render EXCEPT !.pending = @ \ {Load(0, "image")}])
    /\ rstep' = "BackgroundFailed"
    /\ UNCHANGED <<deck, batchPc, slideIdx, thumbnails>>

\* img.onload of an image element
ImageLoaded ==
    /\ UNCHANGED nonRenderVars
    /\ batchPc = "awaiting"
    /\ \E ld \in render.pending :
          /\ ld.el > 0 /\ ld.stage = "image"
          /\ Slide.elements[ld.el].src = "good"
          /\ render' = Resume(render, Slide.elements, ld,
                              LayerAdd(render.layer, <<Node(ld.el, "image")>>))
    /\ rstep' = "ImageLoaded"
    /\ UNCHANGED <<deck, batchPc, slideIdx, thumbnails>>

\* img.onerror of an image element: imgResolve without a node
ImageFailed ==
    /\ UNCHANGED nonRenderVars
    /\ batchPc = "awaiting"
    /\ \E ld \in render.pending :
          /\ ld.el > 0 /\ ld.stage = "image"
          /\ Slide.elements[ld.el].src = "bad"
          /\ render' = Resume(render, Slide.elements, ld, render.layer)
    /\ rstep' = "ImageFailed"
    /\ UNCHANGED <<deck, batchPc, slideIdx, thumbnails>>

\* renderChartToImage resolved: the data URL is given to a new Image
ChartRasterized ==
    /\ UNCHANGED nonRenderVars
    /\ batchPc = "awaiting"
    /\ \E ld \in render.pending :
          /\ ld.stage = "raster"
          /\ Slide.elements[ld.el].src \in {"good", "decodeFail"}
          /\ render' = [render EXCEPT
                           !.pending = (@ \ {ld}) \cup {Load(ld.el, "decode")}]
    /\ rstep' = "ChartRasterized"
    /\ UNCHANGED <<deck, batchPc, slideIdx, thumbnails>>

\* renderChartToImage rejected: the catch adds the placeholder
ChartRasterFailed ==
    /\ UNCHANGED nonRenderVars
    /\ batchPc = "awaiting"
    /\ \E ld \in render.pending :
          /\ ld.stage = "raster"
          /\ Slide.elements[ld.el].src = "rasterFail"
          /\ render' = Resume(render, Slide.elements, ld,
                              LayerAdd(render.layer, Placeholder(ld.el)))
    /\ rstep' = "ChartRasterFailed"
    /\ UNCHANGED <<deck, batchPc, slideIdx, thumbnails>>

\* img.onload of the chart image
ChartDecoded ==
    /\ UNCHANGED nonRenderVars
    /\ batchPc = "awaiting"
    /\ \E ld \in render.pending :
          /\ ld.stage = "decode"
          /\ Slide.elements[ld.el].src = "good"
          /\ render' = Resume(render, Slide.elements, ld,
                              LayerAdd(render.layer, <<Node(ld.el, "chartImage")>>))
    /\ rstep' = "ChartDecoded"
    /\ UNCHANGED <<deck, batchPc, slideIdx, thumbnails>>

\* img.onerror of the chart image: the catch adds the placeholder
ChartDecodeFailed ==
    /\ UNCHANGED nonRenderVars
    /\ batchPc = "awaiting"
    /\ \E ld \in render.pending :
          /\ ld.stage = "decode"
          /\ Slide.elements[ld.el].src = "decodeFail"
          /\ render' = Resume(render, Slide.elements, ld,
                              LayerAdd(render.layer, Placeholder(ld.el)))
    /\ rstep' = "ChartDecodeFailed"
    /\ UNCHANGED <<deck, batchPc, slideIdx, thumbnails>>

\* the 100 ms timeout ran out: toDataURL (which may throw), cleanup, resolve
DelayElapsed ==
    /\ UNCHANGED nonRenderVars
    /\ batchPc = "awaiting"
    /\ render.rpc = "delay"
    /\ \E throws \in BOOLEAN : render' = Finish(render, throws)
    /\ rstep' = "DelayElapsed"
    /\ UNCHANGED <<deck, batchPc, slideIdx, thumbnails>>

\* mutant: the catch of the batch loop logs nothing of the slide
BatchCatchSilent(slide) == "continue"

\* the catch of the batch loop reads slide.id for its log line
BatchCatch(slide) == IF IsNullish(slide) THEN "raise" ELSE "continue"

\* mutant: a new entry is put in front of the result array
ThumbnailsUnshift(list, entry) == <<entry>> \o list

\* thumbnails.push({slideId, thumbnail})
ThumbnailsPush(list, entry) == Append(list, entry)

\* the await of the batch loop resumes with the settled render
BatchResume ==
    /\ UNCHANGED nonRenderVars
    /\ batchPc = "awaiting"
    /\ render.rpc = "settled"
    /\ IF render.result = "resolved"
       THEN /\ thumbnails' = ThumbnailsPush(thumbnails,
                    [slideId |-> slideIdx, thumbnail |-> render.dataURL])
            /\ CallRender(slideIdx + 1)
       ELSE /\ thumbnails' = thumbnails
            /\ IF BatchCatch(Slide) = "raise"
               THEN /\ batchPc' = "raised"
                    /\ render' = NoRender
                    /\ slideIdx' = slideIdx
               ELSE CallRender(slideIdx + 1)
    /\ rstep' = "BatchResume"
    /\ UNCHANGED deck

RenderNext ==
    \/ GenerateAllSlideThumbnails
    \/ BackgroundLoaded
    \/ BackgroundFailed
    \/ ImageLoaded
    \/ ImageFailed
    \/ ChartRasterized
    \/ ChartRasterFailed
    \/ ChartDecoded
    \/ ChartDecodeFailed
    \/ DelayElapsed
    \/ BatchResume

\* ------------------------------- generateThumbnail.js: table and gradient

\* a coordinate or a color stop: the quotient num / den
Frac(num, den) == [num |-> num, den |-> den]
FracEq(a, b) == a.num * b.den = b.num * a.den

\* a || b on numbers: 0 and a missing field (modelled as 0) give b
OrDefault(a, b) == IF a = 0 THEN b ELSE a

\* the table elements drawn: rows or cols 0 stands for a field not given
TableInputs ==
    [x : {0, 5}, y : {0, 5}, width : {0, 12}, height : {0, 12},
     rows : 0..MaxGrid, cols : 0..MaxGrid]

\* new Konva.Line({points: [x1, y1, x2, y2]})
Line(x1, y1, x2, y2) == [kind |-> "line", points |-> <<x1, y1, x2, y2>>]

\* the table branch of the element loop: the outline, then the horizontal and
\* the vertical grid lines when both rows and cols are given
TableNodes(e) ==
    LET x == OrDefault(e.x, 0)
        y == OrDefault(e.y, 0)
        w == OrDefault(e.width, DefaultTableWidth)
        h == OrDefault(e.height, DefaultTableHeight)
    IN <<[kind |-> "tableRect", x |-> x, y |-> y, width |-> w, height |-> h]>>
       \o (IF e.rows # 0 /\ e.cols # 0
           THEN [i \in 1..(e.rows - 1) |->
                    Line(Frac(x, 1), Frac(y * e.rows + i * h, e.rows),
                         Frac(x + w, 1), Frac(y * e.rows + i * h, e.rows))]
                \o [i \in 1..(e.cols - 1) |->
                    Line(Frac(x * e.cols + i * w, e.cols), Frac(y, 1),
                         Frac(x * e.cols + i * w, e.cols), Frac(y + h, 1))]
           ELSE <<>>)

\* the gradients drawn: a colors list of 1..MaxColors colors, or none
ColorSet == {"#ff0000", "#0000ff"}

GradientInputs ==
    {[hasColors |-> FALSE, colors |-> <<>>]}
        \cup {[hasColors |-> TRUE, colors |-> cs] :
                 cs \in UNION {[1..n -> ColorSet] : n \in 1..MaxColors}}

\* mutant: the stops are placed at index / count
ColorStopsByCount(g) ==
    LET colors == IF g.hasColors THEN g.colors ELSE <<"#ffffff">>
    IN [k \in 1..Len(colors) |->
           [stop |-> Frac(k - 1, Len(colors)), color |-> colors[k]]]

\* colors.forEach((color, i) => colorStops.push(step, color))
ColorStops(g) ==
    LET colors == IF g.hasColors THEN g.colors ELSE <<"#ffffff">>
    IN [k \in 1..Len(colors) |->
           [stop |-> IF Len(colors) > 1 THEN Frac(k - 1, Len(colors) - 1)
                                        ELSE Frac(0, 1),
            color |-> colors[k]]]

DrawInit ==
    /\ tableIn \in TableInputs
    /\ tableOut = <<>>
    /\ gradientIn \in GradientInputs
    /\ gradientOut = <<>>
    /\ dstep = "Init"

\* a slide with one table element is rendered
DrawTable ==
    /\ UNCHANGED nonDrawVars
    /\ tableOut' = TableNodes(tableIn)
    /\ dstep' = "DrawTable"
    /\ UNCHANGED <<tableIn, gradientIn, gradientOut>>

\* a slide with a gradient background is rendered
DrawGradient ==
    /\ UNCHANGED nonDrawVars
    /\ gradientOut' = ColorStops(gradientIn)
    /\ dstep' = "DrawGradient"
    /\ UNCHANGED <<tableIn, tableOut, gradientIn>>

DrawNext == DrawTable \/ DrawGradient

\* ------------------------- two generateSlideThumbnail calls that interleave

Calls == {1, 2}

\* the slides of the two calls
PairSlides ==
    {[BareSlide("object") EXCEPT
         !.backgroundColor = TRUE,
         !.elements = <<[type |-> "text", src |-> "none"],
                        [type |-> "image", src |-> "good"]>>],
     [BareSlide("object") EXCEPT
         !.backgroundImage = "good",
         !.elements = <<[type |-> "chart", src |-> "good"],
                        [type |-> "image", src |-> "bad"]>>],
     [BareSlide("object") EXCEPT
         !.elements = <<[type |-> "chart", src |-> "rasterFail"],
                        [type |-> "table", src |-> "none", rows |-> 3, cols |-> 2]>>],
     [BareSlide("object") EXCEPT !.backgroundImage = "bad"]}

\* mutant: every call works on the container, stage and layer of the first
SurfaceShared(c) == 1

\* the container, stage and layer a call creates are its own local constants
SurfaceOf(c) == c

\* the container, stage and layer of a surface, as the document holds them
SurfaceState(r) ==
    [containerInDom |-> r.containerInDom, stageAlive |-> r.stageAlive,
     layer |-> r.layer]

NoSurface == SurfaceState(NoRender)

\* the call's state, its surface read through its references
WithSurface(r, sf) ==
    [r EXCEPT !.containerInDom = sf.containerInDom,
              !.stageAlive = sf.stageAlive,
              !.layer = sf.layer]

\* the event of a load is signalled: a dead resource signals nothing
Signalled(slide, ld) ==
    IF ld.el = 0 THEN slide.backgroundImage \in {"good", "bad"}
    ELSE slide.elements[ld.el].src # "dead"

\* the callback of a resource event of the render of slide, for the load ld
OnResource(r, slide, ld) ==
    LET els == slide.elements
        src == IF ld.el = 0 THEN slide.backgroundImage ELSE els[ld.el].src
    IN IF ld.el = 0
       THEN IF src = "good"
            THEN Continue([r EXCEPT !.layer = LayerAdd(@, <<Node(0, "image")>>),
                                    !.pending = @ \ {ld}], els, 1)
            ELSE Rejected([r EXCEPT !.pending = @ \ {ld}])
       ELSE IF ld.stage = "image"
       THEN Resume(r, els, ld,
                   IF src = "good"
                   THEN LayerAdd(r.layer, <<Node(ld.el, "image")>>)
                   ELSE r.layer)
       ELSE IF ld.stage = "raster"
       THEN IF src = "rasterFail"
            THEN Resume(r, els, ld, LayerAdd(r.layer, Placeholder(ld.el)))
            ELSE [r EXCEPT !.pending = (@ \ {ld}) \cup {Load(ld.el, "decode")}]
       ELSE Resume(r, els, ld,
                   LayerAdd(r.layer,
                            IF src = "good" THEN <<Node(ld.el, "chartImage")>>
                            ELSE Placeholder(ld.el)))

PairInit ==
    /\ pairSlides \in [Calls -> PairSlides]
    /\ pair = [c \in Calls |-> NoRender]
    /\ surfaces = [c \in Calls |-> NoSurface]
    /\ pstep = [op |-> "Init", call |-> 0]

\* call c made a step that left it in state r
PairSet(c, r) ==
    /\ pair' = [pair EXCEPT ![c] = r]
    /\ surfaces' = [surfaces EXCEPT ![SurfaceOf(c)] = SurfaceState(r)]
    /\ UNCHANGED pairSlides

\* generateSlideThumbnail(slide) is called a first and a second time
PairCall ==
    /\ UNCHANGED nonPairVars
    /\ \E c \in Calls :
          /\ pair[c].rpc = "none"
          /\ PairSet(c, BeginRender(pairSlides[c], "ok"))
          /\ pstep' = [op |-> "Call", call |-> c]

\* a resource of one of the two calls signals success or failure
PairResource ==
    /\ UNCHANGED nonPairVars
    /\ \E c \in Calls : \E ld \in pair[c].pending :
          /\ pair[c].rpc \in {"background", "element"}
          /\ Signalled(pairSlides[c], ld)
          /\ PairSet(c, OnResource(WithSurface(pair[c], surfaces[SurfaceOf(c)]),
                                   pairSlides[c], ld))
          /\ pstep' = [op |-> "Resource", call |-> c]

\* the 100 ms timeout of one of the two calls ran out
PairDelay ==
    /\ UNCHANGED nonPairVars
    /\ \E c \in Calls :
          /\ pair[c].rpc = "delay"
          /\ PairSet(c, Finish(WithSurface(pair[c], surfaces[SurfaceOf(c)]), FALSE))
          /\ pstep' = [op |-> "Delay", call |-> c]

PairNext == PairCall \/ PairResource \/ PairDelay

\* ------------------------------------------------------- specifications

\* the field editor at rest, for the runs of the edit session
FieldParked == FieldInit /\ component = "PieChartDataPoints"

\* the edit session at rest, for the runs of the field editor
EditParked == EditInit /\ selectedId = 1 /\ chartTypeOf[2] = "pie"

\* no thumbnail is being generated, for the runs of the other parts
RenderParked == RenderInit /\ deck = <<>>

\* no table and no gradient is drawn, for the runs of the other parts
DrawParked ==
    /\ DrawInit
    /\ tableIn = [x |-> 0, y |-> 0, width |-> 0, height |-> 0, rows |-> 0, cols |-> 0]
    /\ gradientIn = [hasColors |-> FALSE, colors |-> <<>>]

\* no pair of calls is made, for the runs of the other parts
PairParked ==
    /\ PairInit
    /\ pairSlides = [c \in Calls |->
                        [BareSlide("object") EXCEPT !.backgroundImage = "bad"]]

Init == EditInit /\ FieldParked /\ RenderParked /\ DrawParked /\ PairParked

Next == EditNext

Spec == Init /\ [][Next]_vars

FieldSpecInit == EditParked /\ FieldInit /\ RenderParked /\ DrawParked /\ PairParked

FieldSpec == FieldSpecInit /\ [][FieldNext]_vars

RenderSpecInit == EditParked /\ FieldParked /\ RenderInit /\ DrawParked /\ PairParked

RenderSpec == RenderSpecInit /\ [][RenderNext]_vars

\* every callback whose event was signalled runs eventually
RenderFairSpec == RenderSpec /\ WF_vars(RenderNext)

DrawSpecInit == EditParked /\ FieldParked /\ RenderParked /\ DrawInit /\ PairParked

DrawSpec == DrawSpecInit /\ [][DrawNext]_vars

PairSpecInit == EditParked /\ FieldParked /\ RenderParked /\ DrawParked /\ PairInit

PairSpec == PairSpecInit /\ [][PairNext]_vars

\* ------------------------------------------------- edit session properties

LiveCommitEmitted == \E i \in DOMAIN calls : IsUpdate(calls[i]) /\ calls[i].isLive
ExplicitSaveEmitted == \E i \in DOMAIN calls : IsUpdate(calls[i]) /\ ~calls[i].isLive
UserEditStep == step \in {"SetValue", "SetLabel"}
LiveTarget == chartTypeOf[selectedId] # "pie"

CurrentFingerprint ==
    JSONStringify(PadChartData(labels, series, chartTypeOf[selectedId], selectedId))

TimerFingerprint(t) ==
    JSONStringify(PadChartData(t.labels, t.series, chartTypeOf[t.element], t.element))

\* C1 (as stated): a burst with n >= 1 live commits has exactly one pushSnapshot
\* call in total.
C1_ExactlyOneSnapshotPerBurst == liveCount >= 1 => snapCount = 1

\* C2 (as stated): an explicit save after at least one live commit of the burst
\* calls no pushSnapshot, marks its update 'chart-save', and the burst ends with
\* exactly one pushSnapshot call in total.
C2_SaveAfterLiveOneSnapshotInTotal ==
    (ExplicitSaveEmitted /\ liveCount >= 1) =>
          /\ Len(calls) = 1
          /\ calls[1].internal = "chart-save"
          /\ snapCount = 1

\* C3: an explicit save with no live commit since the flag was last reset hands
\* its update to updateSlideElement without an internal marker and calls no
\* pushSnapshot itself.
C3_SaveWithoutLiveLetsHostSnapshot ==
    (ExplicitSaveEmitted /\ liveCount = 0) =>
          /\ Len(calls) = 1
          /\ IsUpdate(calls[1])
          /\ calls[1].internal = "none"
          /\ snapCount = 0

C3_Witness ==
    /\ ExplicitSaveEmitted
    /\ liveCount = 0
    /\ chartTypeOf[selectedId] = "pie"
    /\ calls[1].internal = "none"

\* C4 (as stated): every change of the dataset cancels the pending timer and
\* arms a new one.
C4_EveryChangeArmsTimer ==
    (UserEditStep /\ LiveTarget) => \E t \in timers : t.left = DebounceMs

\* C4 (amended): for a bar or line target, a change cancels the pending timer and
\* arms a new one of 300 ms exactly when the dataset now differs from the
\* last-committed fingerprint, and leaves no timer otherwise; a live commit is
\* emitted no sooner than 300 ms after the last change and leaves no timer, so a
\* run of changes yields at most one live commit, after the last change.
C4_DebounceRestartsOnChange ==
    /\ (UserEditStep /\ LiveTarget) =>
          IF CurrentFingerprint # lastSavedDataRef
          THEN \E t \in timers : timers = {t} /\ t.left = DebounceMs
          ELSE timers = {}
    /\ LiveCommitEmitted => (sinceChange >= DebounceMs /\ timers = {})

C4_Witness ==
    /\ UserEditStep
    /\ cancelled = 1
    /\ \E t \in timers : t.left = DebounceMs

\* C5: a live commit delivers the dataset as it stands when the timer fires, for
\* the selected element; every pending timer holds the current labels and series.
C5_LiveCommitDeliversLatest ==
    /\ \A t \in timers :
          t.labels = labels /\ t.series = series /\ t.element = selectedId
    /\ LiveCommitEmitted =>
          \A i \in DOMAIN calls :
              IsUpdate(calls[i]) =>
                  /\ calls[i].id = selectedId
                  /\ calls[i].data = PadChartData(labels, series,
                                                  chartTypeOf[selectedId], selectedId)

C5_Witness ==
    /\ LiveCommitEmitted
    /\ liveCount = 1
    /\ selectedId = 1
    /\ calls[2].data = [labels |-> <<"b">>, series |-> <<<<1>>>>]

\* C6: a dataset that serializes identically to the last-committed fingerprint is
\* never scheduled for a live commit: no pending timer carries it, and a change
\* that brings the dataset back to the fingerprint leaves no timer and calls
\* nothing.
C6_UnchangedDatasetNotCommitted ==
    /\ \A t \in timers : TimerFingerprint(t) # lastSavedDataRef
    /\ (Loaded /\ CurrentFingerprint = lastSavedDataRef) => timers = {}
    /\ (UserEditStep /\ CurrentFingerprint = lastSavedDataRef) => calls = <<>>

C6_Witness ==
    /\ UserEditStep
    /\ LiveTarget
    /\ CurrentFingerprint = lastSavedDataRef
    /\ cancelled = 1

\* C7: a step in which the externally-owned values change leaves the display
\* string of every focused field as it was and sets the display string of every
\* field that is not focused from the new value.
C7_ExternalUpdateSparesFocusedFields ==
    [][ExternalUpdate =>
          \A k \in Keys(fieldValues') :
              IF k \in focusedInputs
              THEN displayValues'[k] = displayValues[k]
              ELSE displayValues'[k] = DisplayOf(fieldValues'[k])]_vars

C7_Witness ==
    /\ fstep.op = "External"
    /\ isMountedRef
    /\ \E k \in focusedInputs \cap Keys(fieldValues) :
          /\ displayValues[k] = EmptyString
          /\ fieldValues[k] # 0
          /\ \E j \in Keys(fieldValues) \ focusedInputs :
                /\ fieldValues[j] # 0
                /\ displayValues[j] = DisplayOf(fieldValues[j])

\* C8: a blur of a field whose display string is empty commits 0 for that field
\* and leaves its display string empty; a blur of a field whose display string
\* is not empty commits nothing and changes neither values nor display strings.
C8_BlurCommitsZeroOnlyForEmptyField ==
    [][\A k \in FieldKeys :
          (HandleValueBlur /\ fstep' = [op |-> "Blur", key |-> k]) =>
              IF IsBlank(displayValues[k])
              THEN /\ Len(fcalls') = 1
                   /\ component = "PieChartDataPoints" =>
                          fcalls'[1].values = [fieldValues EXCEPT ![k] = 0]
                   /\ component = "TableRow" =>
                          (fcalls'[1].key = k /\ fcalls'[1].value = <<"0">>)
                   /\ fieldValues'[k] = 0
                   /\ displayValues'[k] = EmptyString
              ELSE /\ fcalls' = <<>>
                   /\ fieldValues' = fieldValues
                   /\ displayValues' = displayValues]_vars

C8_Witness ==
    /\ fstep.op = "Blur"
    /\ fcalls # <<>>
    /\ displayValues[fstep.key] = EmptyString
    /\ fieldValues[fstep.key] = 0
    /\ prevValuesRef = fieldValues
    /\ \E j \in Keys(fieldValues) : fieldValues[j] # 0

\* C9: closing the modal cancels the pending timer without running it: the close
\* emits no call, no timer is pending while the modal is closed, and a live
\* commit is emitted only while the modal is open.
C9_CloseCancelsPendingCommit ==
    /\ ~isDataModalOpen => timers = {}
    /\ step = "CloseModal" => calls = <<>>
    /\ LiveCommitEmitted => isDataModalOpen

C9_Witness == step = "CloseModal" /\ cancelled = 1 /\ timers = {}

\* C10 (as stated): after a switch to another target element, and after a close,
\* no timer is pending and no fingerprint of the previous target is held.
C10_SwitchOrCloseResetsSession ==
    step \in {"SwitchElement", "CloseModal"} =>
          /\ timers = {}
          /\ LiveTarget => lastSavedDataRef \in {Null, CurrentFingerprint}

\* C11 (as stated): when the document update of a live commit throws, the
\* last-committed fingerprint is not the fingerprint of the dataset whose
\* commit failed, so that dataset still counts as uncommitted.
C11_FailedLiveCommitKeepsFingerprint ==
    \A i \in DOMAIN calls :
        (step = "TimerFire" /\ IsUpdate(calls[i]) /\ calls[i].throws)
            => lastSavedDataRef # JSONStringify(calls[i].data)

\* ------------------------------------------------------ render properties

\* a render call has settled and the batch has not yet resumed
Settled == batchPc = "awaiting" /\ render.rpc = "settled"
Resolved == Settled /\ render.result = "resolved"

\* the positions of the output that belong to element i
NodesOf(out, i) == {j \in DOMAIN out : out[j].el = i}

\* elements whose resource failed to resolve
ImageLoadFailed(e) == e.type = "image" /\ e.src = "bad"
ChartFailed(e) == e.type = "chart" /\ e.src \in {"rasterFail", "decodeFail"}

\* elements the render paints: every text, shape and table, an image that
\* loaded, and a chart (as its image, or as a placeholder when it failed)
Painted(e) ==
    \/ e.type \in {"text", "shape", "table"}
    \/ e.type = "image" /\ e.src = "good"
    \/ e.type = "chart" /\ e.src \in {"good", "rasterFail", "decodeFail"}

\* the output keeps the array order of the elements
InArrayOrder(out) ==
    \A j, k \in DOMAIN out : j < k => out[j].el <= out[k].el

\* C12 (as stated): a render that acquired the container and the stage has
\* destroyed the stage and removed the container by the time it settles.
C12_SurfaceReleasedOnEveryExit ==
    (Settled /\ render.surface = "ok")
        => ~render.containerInDom /\ ~render.stageAlive

\* C13 (as stated): with N elements of which k failed to resolve their
\* resource (image load or chart rasterization), a completed render holds
\* exactly N-k element layers, in array order.
C13_LayersAreAllButFailedResources ==
    Resolved =>
        LET els == Slide.elements
            k == Cardinality({i \in DOMAIN els :
                                 ImageLoadFailed(els[i]) \/ ChartFailed(els[i])})
            layers == {i \in DOMAIN els : NodesOf(render.dataURL, i) # {}}
        IN Cardinality(layers) = Len(els) - k /\ InArrayOrder(render.dataURL)

\* C13 (amended): a completed render holds one element layer for every text,
\* shape and table element, every image element that loaded and every chart
\* element (a failed chart as its placeholder), and none for any other
\* element, in array order.
C13_LayersArePaintedElements ==
    Resolved =>
        LET els == Slide.elements
        IN /\ \A i \in DOMAIN els :
                 Painted(els[i]) <=> NodesOf(render.dataURL, i) # {}
           /\ \A j \in DOMAIN render.dataURL :
                 render.dataURL[j].el \in {0} \cup DOMAIN els
           /\ \A j \in DOMAIN render.dataURL : \A k \in DOMAIN render.dataURL :
                 (j < k /\ render.dataURL[j].el > 0)
                     => render.dataURL[j].el <= render.dataURL[k].el

C13_Witness ==
    /\ Resolved
    /\ Len(Slide.elements) = 2
    /\ ImageLoadFailed(Slide.elements[1])
    /\ ChartFailed(Slide.elements[2])
    /\ NodesOf(render.dataURL, 1) = {}
    /\ NodesOf(render.dataURL, 2) # {}

\* C14: a completed render holds exactly one background node, the first node
\* of the output: the image if the slide has one, else the gradient, else the
\* solid color, else white; and no element is painted before the background.
C14_OneBackgroundByPriority ==
    /\ Resolved =>
          /\ Cardinality(NodesOf(render.dataURL, 0)) = 1
          /\ render.dataURL[1].el = 0
          /\ (Slide.backgroundImage # "none")
                => render.dataURL[1].kind = "image"
          /\ (Slide.backgroundImage = "none" /\ Slide.backgroundGradient)
                => render.dataURL[1].kind = "gradient"
          /\ (Slide.backgroundImage = "none" /\ ~Slide.backgroundGradient
                  /\ Slide.backgroundColor)
                => render.dataURL[1].kind = "color"
          /\ (Slide.backgroundImage = "none" /\ ~Slide.backgroundGradient
                  /\ ~Slide.backgroundColor)
                => render.dataURL[1].kind = "white"
    /\ render.layer # <<>> => render.layer[1].el = 0

C14_Witness ==
    /\ Resolved
    /\ Slide.backgroundImage = "good" /\ Slide.backgroundColor
    /\ render.dataURL[1].kind = "image"
    /\ Len(render.dataURL) > 1

\* C15 (as stated): generateAllSlideThumbnails never raises, whatever slide
\* fails, and returns one entry per slide whose render succeeded.
C15_BatchNeverRaises ==
    /\ batchPc # "raised"
    /\ batchPc = "returned" => Len(thumbnails) <= Len(deck)

\* C16: a render whose container or stage could not be acquired is settled as
\* rejected when the call returns: the promise is neither pending nor resolved.
C16_AcquireFailureRejects ==
    (batchPc = "awaiting" /\ render.surface \in {"noContainer", "noStage"})
        => /\ render.rpc = "settled"
           /\ render.result = "rejected"
           /\ render.layer = <<>>

C16_Witness ==
    /\ Settled
    /\ render.surface = "noStage"
    /\ render.result = "rejected"
    /\ ~IsNullish(Slide)

\* C17: an image element whose load failed, and a null element, leave no node;
\* every later element that can be painted is in the output of the completed
\* render; and the step that handles the failed load does not reject the render.
C17_ElementFailureIsContained ==
    /\ Resolved =>
          \A i \in DOMAIN Slide.elements :
              (ImageLoadFailed(Slide.elements[i]) \/ Slide.elements[i].type = "null")
                  => /\ NodesOf(render.dataURL, i) = {}
                     /\ \A j \in DOMAIN Slide.elements :
                           (j > i /\ Painted(Slide.elements[j]))
                               => NodesOf(render.dataURL, j) # {}
    /\ rstep = "ImageFailed" =>
          render.result # "rejected" /\ render.rpc \in {"element", "delay"}

C17_Witness ==
    /\ Resolved
    /\ Len(Slide.elements) = 2
    /\ ImageLoadFailed(Slide.elements[1])
    /\ Slide.elements[2].type = "image"
    /\ NodesOf(render.dataURL, 1) = {}
    /\ NodesOf(render.dataURL, 2) # {}

\* C18: a chart whose rasterization or decoding failed has exactly one node in
\* the output of the completed render, a placeholder, at the chart's place in
\* the paint order, and the elements after it are painted.
C18_FailedChartLeavesOnePlaceholder ==
    Resolved =>
        \A i \in DOMAIN Slide.elements :
            ChartFailed(Slide.elements[i])
                => /\ \E j \in DOMAIN render.dataURL :
                         /\ NodesOf(render.dataURL, i) = {j}
                         /\ render.dataURL[j].kind = "placeholder"
                         /\ \A k \in DOMAIN render.dataURL :
                               /\ k < j => render.dataURL[k].el < i
                               /\ k > j => render.dataURL[k].el > i
                   /\ \A m \in DOMAIN Slide.elements :
                         (m > i /\ Painted(Slide.elements[m]))
                             => NodesOf(render.dataURL, m) # {}

C18_Witness ==
    /\ Resolved
    /\ Len(Slide.elements) = 2
    /\ Slide.elements[1] = [type |-> "chart", src |-> "decodeFail"]
    /\ Slide.elements[2].type = "table"
    /\ render.dataURL[2].kind = "placeholder"
    /\ Len(render.dataURL) = 6

\* C19 (as stated): a render that waits for a resource eventually settles,
\* even when that resource never signals success or failure.
C19_HungLoadDoesNotBlockRender ==
    (batchPc = "awaiting" /\ render.rpc \in {"background", "element"})
        ~> (render.rpc = "settled")

\* C20: whenever the resources of the elements resolve, the nodes of the layer,
\* and so of the output, are in the order of the elements in the array.
C20_PaintOrderIsArrayOrder ==
    /\ InArrayOrder(render.layer)
    /\ InArrayOrder(render.dataURL)

C20_Witness ==
    /\ Resolved
    /\ Len(Slide.elements) = 2
    /\ Slide.elements[1] = [type |-> "chart", src |-> "good"]
    /\ Slide.elements[2] = [type |-> "image", src |-> "good"]
    /\ render.dataURL[2].kind = "chartImage"
    /\ render.dataURL[3].kind = "image"

\* ------------------------------------------------ C21 .. C30: properties

\* the update call of the last step threw
CommitFailed == \E i \in DOMAIN calls : IsUpdate(calls[i]) /\ calls[i].throws

\* the serialization of the dataset the document holds for the target
PersistedFingerprint ==
    JSONStringify(PadChartData(doc[selectedId].labels, doc[selectedId].series,
                               chartTypeOf[selectedId], selectedId))

\* C21 (as stated): the display string of every field that is not focused is
\* the one of its committed value: empty for 0, else the decimal text.
C21_UnfocusedDisplayIsCommittedValue ==
    isMountedRef =>
        \A k \in Keys(fieldValues) \ focusedInputs :
            displayValues[k] = DisplayOf(fieldValues[k])

\* C22 (as stated): in an initialized open session the last-committed
\* fingerprint is the serialization of the dataset the document holds.
C22_FingerprintIsLastPersisted ==
    (Loaded /\ initializedRef) => lastSavedDataRef = PersistedFingerprint

\* C23: the flag is false after every step that changes the target, opens the
\* modal or closes it (by onClose or by a save that completed), whatever it
\* was before; and an explicit save is marked 'chart-save' only when a live
\* commit was made on its own target since then.
C23_FlagResetOnTargetOrModalChange ==
    /\ (\/ step \in {"SwitchElement", "OpenModal", "CloseModal"}
        \/ step = "SaveData" /\ ~isDataModalOpen)
          => ~hasLiveSnapshotRef
    /\ \A i \in DOMAIN calls :
          (IsUpdate(calls[i]) /\ calls[i].internal = "chart-save")
              => (flagBefore /\ liveCount >= 1 /\ calls[i].id = selectedId)

C23_Witness ==
    /\ step = "SwitchElement"
    /\ isDataModalOpen
    /\ flagBefore
    /\ ~hasLiveSnapshotRef

\* C24: a live commit whose document update threw leaves the session open,
\* initialized and with its dataset; after it, a change to a dataset that
\* differs from the fingerprint arms a 300 ms timer for that dataset, and the
\* timer's firing emits its live commit.
C24_SessionContinuesAfterFailedCommit ==
    /\ (step = "TimerFire" /\ CommitFailed)
          => (Loaded /\ initializedRef /\ failedCommits >= 1)
    /\ (failedCommits >= 1 /\ UserEditStep /\ LiveTarget
            /\ CurrentFingerprint # lastSavedDataRef)
          => \E t \in timers :
                 TimerFingerprint(t) = CurrentFingerprint /\ t.left = DebounceMs
    /\ (failedCommits >= 1 /\ step = "TimerFire") => LiveCommitEmitted

C24_Witness ==
    /\ step = "TimerFire"
    /\ failedCommits = 1
    /\ liveCount = 2
    /\ LiveCommitEmitted
    /\ ~CommitFailed

\* C25: every value the pie editor commits is >= 0; a change to a negative or a
\* non-numeric text commits 0 for its field, and a change to the empty text
\* commits nothing.
C25_PieCommitsAreNonNegative ==
    component = "PieChartDataPoints" =>
        /\ \A i \in DOMAIN fcalls : \A k \in DOMAIN fcalls[i].values :
              fcalls[i].values[k] >= 0
        /\ fstep.op = "Change" =>
              /\ displayValues[fstep.key] = EmptyString => fcalls = <<>>
              /\ displayValues[fstep.key] \in {<<"-", "1">>, <<"a">>}
                    => /\ Len(fcalls) = 1
                       /\ fcalls[1].values[fstep.key] = 0

C25_Witness ==
    /\ component = "PieChartDataPoints"
    /\ fstep.op = "Change"
    /\ displayValues[fstep.key] = <<"-", "1">>
    /\ Len(fcalls) = 1
    /\ fcalls[1].values[fstep.key] = 0

\* C29 (as stated): any field change made with no timer pending arms the
\* timer; a timer's firing emits a live commit and leaves no timer; an explicit
\* save emits a non-live commit and leaves no timer and the flag cleared.
C29_SessionFollowsStateMachine ==
    [][/\ (timers = {} /\ step' \in {"SetValue", "SetLabel"}) => timers' # {}
       /\ step' = "TimerFire" => (LiveCommitEmitted' /\ timers' = {})
       /\ step' = "SaveData" =>
             (ExplicitSaveEmitted' /\ timers' = {} /\ ~hasLiveSnapshotRef')]_vars

\* C29 (amended): the same, the field change being one of a bar or line
\* target (a field change of a pie target arms no timer), and the explicit
\* save being one whose document update returns; an explicit save whose
\* document update throws emits its non-live commit and leaves the flag, the
\* timer and the open session as they were.
C29_LiveSessionFollowsStateMachine ==
    [][/\ (timers = {} /\ LiveTarget /\ step' \in {"SetValue", "SetLabel"})
             => \E t \in timers' : timers' = {t} /\ t.left = DebounceMs
       /\ (timers = {} /\ ~LiveTarget /\ step' \in {"SetValue", "SetLabel"})
             => timers' = {}
       /\ step' = "TimerFire" => (LiveCommitEmitted' /\ timers' = {})
       /\ step' = "SaveData" =>
             /\ ExplicitSaveEmitted'
             /\ ~CommitFailed' =>
                   (timers' = {} /\ ~hasLiveSnapshotRef' /\ ~isDataModalOpen')
             /\ CommitFailed' =>
                   /\ hasLiveSnapshotRef' = hasLiveSnapshotRef
                   /\ timers' = timers
                   /\ isDataModalOpen']_vars

\* the document update of an explicit save threw after a live commit: the
\* flag is still set and the session open
C29_Witness ==
    /\ step = "SaveData"
    /\ ExplicitSaveEmitted
    /\ CommitFailed
    /\ liveCount >= 1
    /\ flagBefore
    /\ hasLiveSnapshotRef
    /\ isDataModalOpen

\* C30: at most one timer is pending, and it is the one the timer handle names.
C30_AtMostOneTimerPending ==
    /\ Cardinality(timers) <= 1
    /\ \A t \in timers : t.id = updateTimeoutRef

C30_Witness ==
    /\ UserEditStep
    /\ cancelled = 1
    /\ Cardinality(timers) = 1
    /\ \A t \in timers : t.id = updateTimeoutRef /\ t.left = DebounceMs

\* ---------------------------------------- table, gradient, pair properties

\* the grid lines of the drawn table, by direction, in the order drawn
Lines == SelectSeq(tableOut, LAMBDA n : n.kind = "line")
IsHorizontal(l) == FracEq(l.points[2], l.points[4])
IsVertical(l) == FracEq(l.points[1], l.points[3])
HorizontalLines == SelectSeq(Lines, IsHorizontal)
VerticalLines == SelectSeq(Lines, IsVertical)

TableX == OrDefault(tableIn.x, 0)
TableY == OrDefault(tableIn.y, 0)
TableW == OrDefault(tableIn.width, DefaultTableWidth)
TableH == OrDefault(tableIn.height, DefaultTableHeight)

\* C26 (as stated): a table adds one outline and, for rows r >= 1, r-1
\* horizontal lines, the i-th at y + i*height/r, and for cols c >= 1, c-1
\* vertical lines, the i-th at x + i*width/c, also when only one of the two
\* is given.
C26_TableGridLines ==
    dstep = "DrawTable" =>
        /\ Len(SelectSeq(tableOut, LAMBDA n : n.kind = "tableRect")) = 1
        /\ tableIn.rows >= 1 =>
              /\ Len(HorizontalLines) = tableIn.rows - 1
              /\ \A i \in DOMAIN HorizontalLines :
                    (HorizontalLines[i].points[2].num * tableIn.rows
                        = (TableY * tableIn.rows + i * TableH)
                              * HorizontalLines[i].points[2].den)
        /\ tableIn.cols >= 1 =>
              /\ Len(VerticalLines) = tableIn.cols - 1
              /\ \A i \in DOMAIN VerticalLines :
                    (VerticalLines[i].points[1].num * tableIn.cols
                        = (TableX * tableIn.cols + i * TableW)
                              * VerticalLines[i].points[1].den)

\* C27: the color stops of a gradient with n colors are n pairs with the colors
\* in list order; the only stop of one color is 0, and with n > 1 the k-th stop
\* (from 0) is k/(n-1); a gradient without a colors list has the one stop
\* (0, white).
C27_ColorStopsEvenlySpaced ==
    dstep = "DrawGradient" =>
        /\ gradientIn.hasColors =>
              /\ Len(gradientOut) = Len(gradientIn.colors)
              /\ \A k \in DOMAIN gradientOut :
                    /\ gradientOut[k].color = gradientIn.colors[k]
                    /\ gradientOut[k].stop.den > 0
                    /\ IF Len(gradientIn.colors) = 1
                       THEN gradientOut[k].stop.num = 0
                       ELSE gradientOut[k].stop.num * (Len(gradientIn.colors) - 1)
                                = (k - 1) * gradientOut[k].stop.den
        /\ ~gradientIn.hasColors =>
              /\ Len(gradientOut) = 1
              /\ gradientOut[1].color = "#ffffff"
              /\ gradientOut[1].stop.num = 0

C27_Witness ==
    /\ dstep = "DrawGradient"
    /\ Len(gradientIn.colors) = 3
    /\ gradientOut[2].stop.num * 2 = gradientOut[2].stop.den
    /\ gradientOut[3].stop.num = gradientOut[3].stop.den

\* the kinds of node an element of a slide can add
NodeKinds(e) ==
    CASE e.type = "text"  -> {"text"}
      [] e.type = "shape" -> {"shape"}
      [] e.type = "table" -> {"tableRect", "line"}
      [] e.type = "image" -> {"image"}
      [] e.type = "chart" -> {"chartImage", "placeholder"}
      [] OTHER            -> {}

\* every node of the layer is a node of the slide
LayerOfSlide(lyr, slide) ==
    \A j \in DOMAIN lyr :
        IF lyr[j].el = 0
        THEN /\ j = 1
             /\ (lyr[j].kind = "image") = (slide.backgroundImage # "none")
        ELSE /\ lyr[j].el \in DOMAIN slide.elements
             /\ lyr[j].kind \in NodeKinds(slide.elements[lyr[j].el])

\* C28: of two interleaved calls, each call's container, stage and layer are
\* as the call itself left them; while a call is running its container is
\* attached and its stage alive; its layer holds nodes of its own slide only.
C28_InterleavedCallsAreIsolated ==
    \A c \in Calls :
        /\ surfaces[c] = SurfaceState(pair[c])
        /\ pair[c].rpc \in {"background", "element", "delay"}
              => surfaces[c].containerInDom /\ surfaces[c].stageAlive
        /\ LayerOfSlide(surfaces[c].layer, pairSlides[c])
        /\ LayerOfSlide(pair[c].dataURL, pairSlides[c])

C28_Witness ==
    /\ pstep = [op |-> "Delay", call |-> 1]
    /\ pair[1].result = "resolved"
    /\ ~surfaces[1].containerInDom
    /\ pair[2].rpc = "element"
    /\ surfaces[2].containerInDom /\ surfaces[2].stageAlive
    /\ Len(surfaces[2].layer) >= 2
    /\ pairSlides[1] # pairSlides[2]

\* ------------------------------------------ live commits and their snapshots

SnapshotIndexes(cs) == {i \in DOMAIN cs : IsSnapshot(cs[i])}
UpdateIndexes(cs) == {i \in DOMAIN cs : IsUpdate(cs[i])}

\* C31: in every live commit pushSnapshot is called first, with the slides and
\* the selected element as they are before the edit, and only then is
\* updateSlideElement called, once, for the same element and marked
\* 'chart-live'.
C31_SnapshotRequestPrecedesUpdate ==
    [][step' = "TimerFire" =>
          /\ UpdateIndexes(calls') # {}
          /\ \A j \in UpdateIndexes(calls') :
                /\ calls'[j].internal = "chart-live"
                /\ calls'[j].id = selectedId
                /\ \E i \in SnapshotIndexes(calls') :
                      /\ i < j
                      /\ calls'[i].slides = doc
                      /\ calls'[i].selectedElement = selectedId]_vars

\* a live commit changed the document and its snapshot holds the older dataset
C31_Witness ==
    /\ step = "TimerFire"
    /\ Len(calls) = 2
    /\ IsSnapshot(calls[1])
    /\ IsUpdate(calls[2]) /\ ~calls[2].throws
    /\ calls[1].slides[selectedId] # doc[selectedId]
    /\ doc[selectedId] = calls[2].data

\* C32: while the target of an open session is a pie chart, no timer is
\* pending and no live commit is emitted, whatever labels and series changes
\* occur.
C32_PieTargetNeverArms ==
    (isDataModalOpen /\ chartTypeOf[selectedId] = "pie") =>
        /\ timers = {}
        /\ step # "TimerFire"
        /\ ~LiveCommitEmitted

\* the dataset of a pie target was changed and has been left alone for the
\* whole debounce delay
C32_Witness ==
    /\ isDataModalOpen
    /\ chartTypeOf[selectedId] = "pie"
    /\ differed
    /\ CurrentFingerprint # lastSavedDataRef
    /\ sinceChange = DebounceMs
    /\ step = "Tick"

\* C33: from the opening of a session until the dataset first differs from the
\* dataset captured at initialization, no timer is armed and no live commit or
\* snapshot is produced; opening and loading the initial data emit nothing.
C33_OpenAndLoadEmitNothing ==
    (isDataModalOpen /\ ~differed) =>
        /\ timers = {}
        /\ ~LiveCommitEmitted
        /\ SnapshotIndexes(calls) = {}
        /\ liveCount = 0
        /\ snapCount = 0
        /\ ~hasLiveSnapshotRef

\* the initial data of a bar or line target is loaded and was captured
C33_Witness ==
    /\ step = "LoadData"
    /\ LiveTarget
    /\ initializedRef
    /\ capturedData = CurrentFingerprint
    /\ ~differed
    /\ timers = {}

\* C35: a pending timer belongs to the open session and to the current target
\* element, and the live commit of a firing timer is delivered for the element
\* the timer was armed for, with the data computed from the labels and series
\* it was armed with.
C35_TimerFiresOnlyForItsTarget ==
    /\ [](\A t \in timers : isDataModalOpen /\ t.element = selectedId)
    /\ [][step' = "TimerFire" =>
            \E t \in timers \ timers' :
                /\ t.left = 0
                /\ t.element = selectedId
                /\ \A j \in UpdateIndexes(calls') :
                      /\ calls'[j].id = t.element
                      /\ calls'[j].data =
                            PadChartData(t.labels, t.series,
                                         chartTypeOf[t.element], t.element)]_vars

\* the target changed while a timer was pending, and the timer is gone
C35_Witness ==
    /\ step = "SwitchElement"
    /\ isDataModalOpen
    /\ cancelled = 1
    /\ \A t \in timers : t.element = selectedId

\* C36: the 'snapshot already taken' flag becomes true only in a step in which
\* a pushSnapshot call completed successfully, so whenever the flag is true a
\* snapshot has succeeded since the flag was last reset.
C36_FlagImpliesSuccessfulSnapshot ==
    [][(hasLiveSnapshotRef' /\ ~hasLiveSnapshotRef) =>
          \E i \in SnapshotIndexes(calls') : ~calls'[i].throws]_vars

\* C37: when pushSnapshot throws during a live commit, updateSlideElement is
\* still called exactly once, and unless that call itself throws the document
\* holds the data of the commit for the target and is otherwise unchanged.
C37_SnapshotFailureKeepsTheEdit ==
    [][(step' = "TimerFire" /\ \E i \in SnapshotIndexes(calls') : calls'[i].throws) =>
          /\ Cardinality(UpdateIndexes(calls')) = 1
          /\ \A j \in UpdateIndexes(calls') :
                /\ calls'[j].internal = "chart-live"
                /\ ~calls'[j].throws =>
                      doc' = [doc EXCEPT ![calls'[j].id] = calls'[j].data]]_vars

\* pushSnapshot threw and the document holds the edit
C37_Witness ==
    /\ step = "TimerFire"
    /\ Len(calls) = 2
    /\ IsSnapshot(calls[1]) /\ calls[1].throws
    /\ IsUpdate(calls[2]) /\ ~calls[2].throws
    /\ doc[selectedId] = calls[2].data
    /\ calls[1].slides[selectedId] # doc[selectedId]

\* C34: changing the input of a focused field to the empty string updates only
\* the display string of that field: the committed values, the other display
\* strings and the focus are unchanged and no call is made to the collaborator.
C34_EmptyInputChangesOnlyDisplay ==
    [][(fstep'.op = "Change" /\ displayValues'[fstep'.key] = EmptyString) =>
          /\ fieldValues' = fieldValues
          /\ fcalls' = <<>>
          /\ focusedInputs' = focusedInputs
          /\ fstep'.key \in focusedInputs
          /\ displayValues' = [displayValues EXCEPT ![fstep'.key] = EmptyString]]_vars

\* a focused field whose committed value is not 0 was emptied
C34_Witness ==
    /\ fstep.op = "Change"
    /\ fstep.key \in focusedInputs
    /\ displayValues[fstep.key] = EmptyString
    /\ fieldValues[fstep.key] # 0
    /\ fcalls = <<>>

\* ------------------------------------------- C38, C39: the batch of renders

BadBackground(slide) == slide.backgroundImage = "bad"

SlideIds(list) == [j \in DOMAIN list |-> list[j].slideId]

\* C38: the render of a slide whose background image fails to load is
\* rejected with no element painted and no image returned; the batch adds no
\* entry for that slide and goes on to the slide after it.
C38_BackgroundFailureRejectsRender ==
    /\ []((Settled /\ BadBackground(Slide)) =>
             /\ render.result = "rejected"
             /\ render.layer = <<>>
             /\ render.dataURL = <<>>)
    /\ [](\A j \in DOMAIN thumbnails : ~BadBackground(deck[thumbnails[j].slideId]))
    /\ [][(rstep' = "BatchResume" /\ BadBackground(Slide)) =>
             /\ thumbnails' = thumbnails
             /\ slideIdx' = slideIdx + 1
             /\ batchPc' = IF slideIdx' > Len(deck) THEN "returned" ELSE "awaiting"]_vars

\* a batch of three slides returned the first and the third: the background
\* image of the second failed
C38_Witness ==
    /\ batchPc = "returned"
    /\ Len(deck) = 3
    /\ BadBackground(deck[2])
    /\ SlideIds(thumbnails) = <<1, 3>>
    /\ thumbnails[2].thumbnail # <<>>

\* C39: the slide ids of the result list are strictly increasing positions of
\* the input (a subsequence of the input, one entry per slide at most), an
\* entry is only ever added at the end, for the slide whose render settled, and
\* the render of the next slide starts only when the render before it has
\* settled.
C39_ThumbnailsInInputOrder ==
    /\ [](/\ \A j \in DOMAIN thumbnails : thumbnails[j].slideId \in DOMAIN deck
          /\ \A j, k \in DOMAIN thumbnails :
                j < k => thumbnails[j].slideId < thumbnails[k].slideId
          /\ \A j \in DOMAIN thumbnails : thumbnails[j].slideId < slideIdx)
    /\ [][/\ thumbnails' # thumbnails =>
                /\ render.rpc = "settled" /\ render.result = "resolved"
                /\ thumbnails' = Append(thumbnails,
                       [slideId |-> slideIdx, thumbnail |-> render.dataURL])
          /\ slideIdx' # slideIdx =>
                /\ slideIdx' = slideIdx + 1
                /\ slideIdx > 0 => render.rpc = "settled"]_vars

\* three slides, the render of the second rejected at once: the list holds
\* the first and the third, in that order
C39_Witness ==
    /\ batchPc = "returned"
    /\ Len(deck) = 3
    /\ SlideIds(thumbnails) = <<1, 3>>
    /\ deck[2] = BareSlide("object")

====
